---------------------------- MODULE Spec2Model ----------------------------
(***************************************************************************)
(* Hybrid retrieval service: Reciprocal Rank Fusion (app/utils/rrf.py) and *)
(* the hybrid search coordinator (app/services/search.py) running on the   *)
(* asyncio event loop.                                                     *)
(*                                                                         *)
(* The specifications share the module's variables:                        *)
(*   SpecRRF     reciprocal_rank_fusion applied to bounded inputs          *)
(*   Spec        one hybrid_search request on the event loop               *)
(*   SpecStore   ingest, search and tenant delete on a small collection    *)
(*   SpecDelete  tenant delete on collections of several scroll pages      *)
(*   SpecSparse  _create_sparse_vector applied to bounded texts            *)
(*   SpecSummary one search_with_summary request                           *)
(***************************************************************************)
EXTENDS Integers, Sequences, FiniteSets, TLC

VARIABLES
    \* ---- reciprocal_rank_fusion (SpecRRF) ----
    results_list,     \* argument: sequence of ranked lists of hits
    k,                \* argument: the RRF constant
    merged_results,   \* the returned list
    rrf_pc,           \* "call" before the function has run, "return" after
    \* ---- one hybrid_search request (Spec) ----
    wait_for_impl,    \* which asyncio.wait_for the interpreter ships
    top_k,            \* argument of hybrid_search
    pc,               \* where the hybrid_search coroutine stands
    dense_task,       \* the search_dense coroutine: pending, running, ok, err
    sparse_task,      \* the search_sparse coroutine
    dense_hits,       \* what search_dense returned
    sparse_hits,      \* what search_sparse returned
    outer,            \* the future of asyncio.gather
    nfinished,        \* gather's count of finished children
    ready,            \* the event loop's queue of callbacks (loop._ready)
    todo,             \* callbacks left to run in this loop iteration
    timer,            \* the timeout handle: none, armed, queued, fired, cancelled
    elapsed,          \* search_timeout seconds have passed since wait_for
    waiter_done,      \* wait_for's waiter future is set (waiter implementation)
    must_cancel,      \* the request task's _must_cancel (timeout implementation)
    dense_results,    \* locals of hybrid_search
    sparse_results,
    final_results,    \* returned by hybrid_search
    outcome,          \* pending, returned, or the exception raised
    at_deadline,      \* history: the two coroutines' states when the deadline passed
    starts,           \* history: how many times each search coroutine was started
    awaited_again,    \* history: the coroutines hybrid_search awaited after wait_for
    \* ---- the Vector Store behind QdrantService (SpecStore, SpecDelete) ----
    points,           \* the points of the collection
    last_op,          \* history: the last request served and its response
    \* ---- _create_sparse_vector (SpecSparse) ----
    text,             \* argument: the text, as its whitespace-separated words
    sparse_vector,    \* the returned SparseVector
    sparse_pc,        \* "call" before the function has run, "return" after
    \* ---- one search_with_summary request (SpecSummary) ----
    sum_pc,           \* where the handler stands: start, wait_for, cancel_wait, done
    search_outcome,   \* hybrid_search: pending, returned, or the exception raised
    sum_results,      \* results: what hybrid_search returned
    llm_service,      \* get_llm_service(): none, created, failed
    llm_task,         \* the generate_summary coroutine
    llm_result,       \* what the coroutine returned or raised
    provider_reply,   \* the Text Generation Provider's answer, once it has come
    provider_calls,   \* history: calls of chat.completions.create
    llm_timer,        \* the timeout handle of wait_for: none, armed, fired, cancelled
    llm_cancel,       \* a CancelledError waits to be thrown into the coroutine
    main_woken,       \* the handler's wakeup is queued (waiter implementation)
    response          \* the response of the request

rrf_vars == <<results_list, k, merged_results, rrf_pc>>

loop_vars == <<outer, nfinished, ready, todo, timer, waiter_done, must_cancel>>

\* what the request has done with its two search coroutines so far
retry_vars == <<starts, awaited_again>>

search_vars == <<wait_for_impl, top_k, pc, dense_task, sparse_task, dense_hits,
                 sparse_hits, loop_vars, elapsed, dense_results, sparse_results,
                 final_results, outcome, at_deadline, retry_vars>>

store_vars == <<points, last_op>>

\* the state of the handlers other than the fusion and the search request
sparse_vars == <<text, sparse_vector, sparse_pc>>

summary_vars == <<sum_pc, search_outcome, sum_results, llm_service, llm_task,
                  llm_result, provider_reply, provider_calls, llm_timer,
                  llm_cancel, main_woken, response>>

handler_vars == <<store_vars, sparse_vars, summary_vars>>

vars == <<rrf_vars, search_vars, handler_vars>>

---------------------------------------------------------------------------
(* Bounds of the model *)

\* longest ranked list handed to reciprocal_rank_fusion
MaxLen == 3

\* largest top_k of a request
MaxTopK == 2

\* most hits the Vector Store answers one search with
MaxAnswer == 2

\* most points in the collection of SpecStore
MaxPoints == 2

\* SpecDelete: the collections hold up to MaxPages full scroll pages and one point
MaxPages == 2

\* most words in a text handed to _create_sparse_vector
MaxWords == 3

---------------------------------------------------------------------------
(* Program constants *)

\* settings.rrf_k, and the default of reciprocal_rank_fusion's k
rrf_k == 60

\* limit=100 of the scroll in delete_by_tenant
scroll_limit == 100

\* the index space of _create_sparse_vector: % 10000
index_space == 10000

---------------------------------------------------------------------------
(* Values *)

\* Document ids, in the order in which fresh ids are introduced into inputs.
DocIds == <<"doc1", "doc2", "doc3", "doc4">>

\* A hit without usable document_id: result.get("document_id") is None or "".
\* Both are falsy in Python and take the same branch; "" stands for both.
NoId == ""

Min(a, b) == IF a < b THEN a ELSE b

\* `not doc_id`
Falsy(doc_id) == doc_id = NoId

\* result.get(key, default)
Get(result, key, default) ==
    IF key \in DOMAIN result THEN result[key] ELSE default

---------------------------------------------------------------------------
(* reciprocal_rank_fusion *)

\* Scores are Python floats 1.0 / (k + rank) and sums of them.  They are kept
\* here as exact rationals with the common denominator ScoreDen(k): a score
\* is the numerator n of n / ScoreDen(k).  For the ranks and the k's of this
\* model two different rational sums differ by far more than a float ulp.
\* (Sums of the same three or more terms added in different orders are equal
\* here and may differ in the last bit as floats; the sort then goes by that
\* bit.)
RECURSIVE ScoreDenUpTo(_, _)
ScoreDenUpTo(kk, n) == IF n = 0 THEN 1 ELSE (kk + n) * ScoreDenUpTo(kk, n - 1)

ScoreDen(kk) == ScoreDenUpTo(kk, MaxLen)

\* rrf_score = 1.0 / (k + rank)
rrf_score(kk, rank) == ScoreDen(kk) \div (kk + rank)

\* The two dictionaries before the loops: doc_scores and doc_data, empty.
\* keys is the insertion order of doc_scores (a dict iterates in it).
EmptyAcc == [keys |-> <<>>, doc_scores |-> <<>>, doc_data |-> <<>>]

\* doc_scores[doc_id] = rrf_score instead of +=
AddScoreOverwrite(doc_scores, doc_id, score) ==
    [doc_scores EXCEPT ![doc_id] = score]

\* doc_scores[doc_id] += rrf_score
AddScore(doc_scores, doc_id, score) ==
    [doc_scores EXCEPT ![doc_id] = @ + score]

\* the document data stored on every occurrence: the last sighting's stays
AccumulateLastSeen(acc, doc_id, result, score) ==
    LET data == [document_id |-> doc_id,
                 content     |-> Get(result, "content", ""),
                 metadata    |-> Get(result, "metadata", <<>>)]
    IN  IF doc_id \in DOMAIN acc.doc_scores
        THEN [acc EXCEPT !.doc_scores = AddScore(acc.doc_scores, doc_id, score),
                         !.doc_data = [@ EXCEPT ![doc_id] = data]]
        ELSE [keys       |-> Append(acc.keys, doc_id),
              doc_scores |-> acc.doc_scores @@ (doc_id :> score),
              doc_data   |-> acc.doc_data @@ (doc_id :> data)]

\* The body of the inner loop after the `continue`: accumulate the score,
\* and store the document data on the first occurrence only.
Accumulate(acc, doc_id, result, score) ==
    IF doc_id \in DOMAIN acc.doc_scores
    THEN [acc EXCEPT !.doc_scores = AddScore(acc.doc_scores, doc_id, score)]
    ELSE [keys       |-> Append(acc.keys, doc_id),
          doc_scores |-> acc.doc_scores @@ (doc_id :> score),
          doc_data   |-> acc.doc_data @@
                           (doc_id :> [document_id |-> doc_id,
                                       content     |-> Get(result, "content", ""),
                                       metadata    |-> Get(result, "metadata", <<>>)])]

\* never skipping: a hit without document_id is accumulated like any other
SkipHitNever(doc_id) == FALSE

\* if not doc_id: continue
SkipHit(doc_id) == Falsy(doc_id)

\* the hits without document_id dropped before the enumeration: the hits
\* after them move up one rank
RECURSIVE ProcessResultsRenumbered(_, _, _, _)
ProcessResultsRenumbered(acc, results, kk, rank) ==
    LET kept == SelectSeq(results, LAMBDA r : ~SkipHit(Get(r, "document_id", NoId)))
    IN  IF rank > Len(kept) THEN acc
        ELSE ProcessResultsRenumbered(
                 Accumulate(acc, kept[rank].document_id, kept[rank], rrf_score(kk, rank)),
                 results, kk, rank + 1)

\* for rank, result in enumerate(results, start=1): ...
RECURSIVE ProcessResults(_, _, _, _)
ProcessResults(acc, results, kk, rank) ==
    IF rank > Len(results) THEN acc
    ELSE LET result == results[rank]
             doc_id == Get(result, "document_id", NoId)
         IN  ProcessResults(IF SkipHit(doc_id) THEN acc
                            ELSE Accumulate(acc, doc_id, result, rrf_score(kk, rank)),
                            results, kk, rank + 1)

\* for results in results_list: ...
RECURSIVE ProcessLists(_, _, _, _)
ProcessLists(acc, lists, kk, i) ==
    IF i > Len(lists) THEN acc
    ELSE ProcessLists(ProcessResults(acc, lists[i], kk, 1), lists, kk, i + 1)

\* doc_scores.items(): (doc_id, score) pairs in insertion order
Items(acc) == [i \in 1..Len(acc.keys) |-> <<acc.keys[i], acc.doc_scores[acc.keys[i]]>>]

\* One insertion of a stable descending sort: x goes after every item whose
\* score is >= its own, before the first item with a smaller score.
RECURSIVE InsertDesc(_, _)
InsertDesc(s, x) ==
    IF s = <<>> THEN <<x>>
    ELSE IF s[1][2] >= x[2] THEN <<s[1]>> \o InsertDesc(Tail(s), x)
    ELSE <<x>> \o s

RECURSIVE SortedFrom(_, _, _)
SortedFrom(out, items, i) ==
    IF i > Len(items) THEN out
    ELSE SortedFrom(InsertDesc(out, items[i]), items, i + 1)

\* sorted ascending by score (stable), then reversed: equal scores come out
\* in the opposite of their insertion order
RECURSIVE InsertAsc(_, _)
InsertAsc(s, x) ==
    IF s = <<>> THEN <<x>>
    ELSE IF s[1][2] <= x[2] THEN <<s[1]>> \o InsertAsc(Tail(s), x)
    ELSE <<x>> \o s

RECURSIVE SortedAscFrom(_, _, _)
SortedAscFrom(out, items, i) ==
    IF i > Len(items) THEN out
    ELSE SortedAscFrom(InsertAsc(out, items[i]), items, i + 1)

Reverse(s) == [i \in 1..Len(s) |-> s[Len(s) + 1 - i]]

SortedReversedAsc(items) == Reverse(SortedAscFrom(<<>>, items, 1))

\* ascending instead of descending (reverse=True forgotten)
SortedAscending(items) == SortedAscFrom(<<>>, items, 1)

\* sorted(doc_scores.items(), key=lambda x: x[1], reverse=True): Python's sort
\* is stable, and reverse=True keeps equal items in their original order.
sorted_docs(items) == SortedFrom(<<>>, items, 1)

\* result = doc_data[doc_id].copy(); result["score"] = score
BuildResults(acc, sorted) ==
    [i \in 1..Len(sorted) |->
        [document_id |-> acc.doc_data[sorted[i][1]].document_id,
         content     |-> acc.doc_data[sorted[i][1]].content,
         metadata    |-> acc.doc_data[sorted[i][1]].metadata,
         score       |-> sorted[i][2]]]

reciprocal_rank_fusion(lists, kk) ==
    LET acc == ProcessLists(EmptyAcc, lists, kk, 1)
    IN  BuildResults(acc, sorted_docs(Items(acc)))

---------------------------------------------------------------------------
(* hybrid_search on the asyncio event loop *)

\* search_dense and search_sparse are `async def` without any await: each
\* calls the synchronous QdrantClient.search.  Once the event loop starts such
\* a coroutine it runs to its end inside one callback, and the loop runs
\* nothing else, the timeout handle included, until the Vector Store answers.

\* The documents a search may return.
SearchDocs == {"doc1", "doc2", "doc3"}

\* One row of the list search_dense / search_sparse builds from a hit's
\* payload.  (The row's "score" is never read after the search.)
StoreHit(doc_id) ==
    [document_id |-> doc_id, content |-> <<"content", doc_id>>,
     metadata |-> <<"metadata", doc_id>>]

\* The Vector Store's answers to a search with limit = top_k * 2: at most
\* limit points, here of distinct documents.
StoreAnswers(limit) ==
    UNION {
        {[i \in 1..n |-> StoreHit(ids[i])] :
            ids \in {f \in [1..n -> SearchDocs] : \A i, j \in 1..n : f[i] = f[j] => i = j}}
        : n \in 0..Min(limit, MaxAnswer) }

\* merged_results[:top_k]
Take(s, n) == SubSeq(s, 1, Min(n, Len(s)))

\* The asyncio.wait_for of the interpreter: up to Python 3.11 a waiter future
\* released by loop.call_later or by the gathered future; from Python 3.12
\* `async with timeouts.timeout(timeout)`, whose handle cancels the task.
WaitForImpls == {"waiter", "timeout"}

\* no request has been served
NoOp == [name |-> "none"]

\* the collection as _ensure_collection creates it, and no request so far
NoStore ==
    /\ points = {}
    /\ last_op = NoOp

\* _create_sparse_vector is not being followed
NoVector ==
    /\ text = <<>>
    /\ sparse_vector = [indices |-> <<>>, values |-> <<>>]
    /\ sparse_pc = "unused"

NoReply == [kind |-> "none"]

NoResult == [kind |-> "none"]

NoResponse == [status_code |-> 0]

\* no search_with_summary request has come
NoSummary ==
    /\ sum_pc = "start"
    /\ search_outcome = "pending"
    /\ sum_results = <<>>
    /\ llm_service = "none"
    /\ llm_task = "none"
    /\ llm_result = NoResult
    /\ provider_reply = NoReply
    /\ provider_calls = 0
    /\ llm_timer = "none"
    /\ llm_cancel = FALSE
    /\ main_woken = FALSE
    /\ response = NoResponse

NoRequest ==
    /\ pc = "start"
    /\ dense_task = "none" /\ sparse_task = "none"
    /\ dense_hits = <<>> /\ sparse_hits = <<>>
    /\ outer = "pending" /\ nfinished = 0
    /\ ready = <<>> /\ todo = 0
    /\ timer = "none" /\ elapsed = FALSE
    /\ waiter_done = FALSE /\ must_cancel = FALSE
    /\ dense_results = <<>> /\ sparse_results = <<>>
    /\ final_results = <<>>
    /\ outcome = "pending"
    /\ at_deadline = <<"none", "none">>
    /\ starts = [dense |-> 0, sparse |-> 0]
    /\ awaited_again = {}

NoFusion ==
    /\ results_list = <<>>
    /\ k = rrf_k
    /\ merged_results = <<>>
    /\ rrf_pc = "unused"

\* hybrid_search up to its first suspension: the two coroutine objects are
\* made, gather wraps each in a Task (its first step goes on the loop's
\* queue, dense first), wait_for arms the timeout handle, and the request's
\* coroutine suspends.
StartRequest ==
    /\ pc = "start"
    /\ pc' = "wait_for"
    /\ dense_task' = "pending"
    /\ sparse_task' = "pending"
    /\ ready' = <<"dense_step", "sparse_step">>
    /\ timer' = "armed"
    /\ UNCHANGED <<rrf_vars, handler_vars, retry_vars,
                   wait_for_impl, top_k, dense_hits, sparse_hits, outer,
                   nfinished, todo, elapsed, waiter_done, must_cancel,
                   dense_results, sparse_results, final_results, outcome,
                   at_deadline>>

\* The wall clock passes the deadline.  It can do so whatever the loop is
\* doing, also while a coroutine sits in its blocking Vector Store call.
DeadlineElapses ==
    /\ timer = "armed"
    /\ ~elapsed
    /\ elapsed' = TRUE
    /\ at_deadline' = <<dense_task, sparse_task>>
    /\ UNCHANGED <<rrf_vars, handler_vars, retry_vars,
                   wait_for_impl, top_k, pc, dense_task, sparse_task,
                   dense_hits, sparse_hits, loop_vars, dense_results,
                   sparse_results, final_results, outcome>>

\* The loop is inside a callback that has not returned.
Blocked == dense_task = "running" \/ sparse_task = "running"

\* One pass of the loop (BaseEventLoop._run_once) begins: a timeout handle
\* that is due goes to the end of the queue, and the callbacks now queued
\* are the ones this pass runs.
LoopIteration ==
    /\ pc = "wait_for"
    /\ todo = 0
    /\ ready # <<>>
    /\ IF timer = "armed" /\ elapsed
       THEN ready' = Append(ready, "timer") /\ timer' = "queued"
       ELSE UNCHANGED <<ready, timer>>
    /\ todo' = Len(ready')
    /\ UNCHANGED <<rrf_vars, handler_vars, retry_vars,
                   wait_for_impl, top_k, pc, dense_task, sparse_task,
                   dense_hits, sparse_hits, outer, nfinished, elapsed, waiter_done,
                   must_cancel, dense_results, sparse_results, final_results,
                   outcome, at_deadline>>

\* The next callback of this pass is h.
Runs(h) == pc = "wait_for" /\ todo > 0 /\ ~Blocked /\ Head(ready) = h

\* The callback at the head returns, having queued the callbacks in more.
Finish(more) == ready' = Tail(ready) \o more /\ todo' = todo - 1

\* The dense Task's first step: search_dense enters self.client.search.
RunDenseStep ==
    /\ Runs("dense_step")
    /\ dense_task = "pending"
    /\ dense_task' = "running"
    /\ starts' = [starts EXCEPT !.dense = @ + 1]
    /\ UNCHANGED awaited_again
    /\ UNCHANGED <<rrf_vars, handler_vars, wait_for_impl, top_k, pc, sparse_task, dense_hits,
                   sparse_hits, loop_vars, elapsed, dense_results, sparse_results,
                   final_results, outcome, at_deadline>>

\* The Vector Store answers the dense search, with hits or with an error;
\* the coroutine ends and its Task queues gather's done-callback.
DenseReturns ==
    /\ pc = "wait_for"
    /\ dense_task = "running"
    /\ \/ \E hits \in StoreAnswers(top_k * 2) :
            dense_task' = "ok" /\ dense_hits' = hits
       \/ dense_task' = "err" /\ UNCHANGED dense_hits
    /\ Finish(<<"dense_done">>)
    /\ UNCHANGED <<rrf_vars, handler_vars, retry_vars,
                   wait_for_impl, top_k, pc, sparse_task, sparse_hits,
                   outer, nfinished, timer, elapsed, waiter_done, must_cancel,
                   dense_results, sparse_results, final_results, outcome,
                   at_deadline>>

\* The sparse Task's first step: search_sparse enters self.client.search.
RunSparseStep ==
    /\ Runs("sparse_step")
    /\ sparse_task = "pending"
    /\ sparse_task' = "running"
    /\ starts' = [starts EXCEPT !.sparse = @ + 1]
    /\ UNCHANGED awaited_again
    /\ UNCHANGED <<rrf_vars, handler_vars, wait_for_impl, top_k, pc, dense_task, dense_hits,
                   sparse_hits, loop_vars, elapsed, dense_results, sparse_results,
                   final_results, outcome, at_deadline>>

\* The Vector Store answers the sparse search.
SparseReturns ==
    /\ pc = "wait_for"
    /\ sparse_task = "running"
    /\ \/ \E hits \in StoreAnswers(top_k * 2) :
            sparse_task' = "ok" /\ sparse_hits' = hits
       \/ sparse_task' = "err" /\ UNCHANGED sparse_hits
    /\ Finish(<<"sparse_done">>)
    /\ UNCHANGED <<rrf_vars, handler_vars, retry_vars,
                   wait_for_impl, top_k, pc, dense_task, dense_hits,
                   outer, nfinished, timer, elapsed, waiter_done, must_cancel,
                   dense_results, sparse_results, final_results, outcome,
                   at_deadline>>

\* What the gathered future queues when it becomes done: its done-callback,
\* which is the request task's wakeup (timeout implementation) or
\* _release_waiter (waiter implementation).
OuterCallback == IF wait_for_impl = "timeout" THEN <<"main">> ELSE <<"release_waiter">>

\* gather's _done_callback for one child (return_exceptions is False): the
\* first child that failed sets the outer future's exception; the last child
\* to finish sets its result.
ChildDone(child_state, err) ==
    IF outer # "pending"
    THEN Finish(<<>>) /\ UNCHANGED <<outer, nfinished>>
    ELSE IF child_state = "err"
    THEN outer' = err /\ Finish(OuterCallback) /\ UNCHANGED nfinished
    ELSE /\ nfinished' = nfinished + 1
         /\ IF nfinished' = 2
            THEN outer' = "ok" /\ Finish(OuterCallback)
            ELSE Finish(<<>>) /\ UNCHANGED outer

DenseDone ==
    /\ Runs("dense_done")
    /\ ChildDone(dense_task, "DenseError")
    /\ UNCHANGED <<rrf_vars, handler_vars, retry_vars,
                   wait_for_impl, top_k, pc, dense_task, sparse_task,
                   dense_hits, sparse_hits, timer, elapsed, waiter_done,
                   must_cancel, dense_results, sparse_results, final_results,
                   outcome, at_deadline>>

SparseDone ==
    /\ Runs("sparse_done")
    /\ ChildDone(sparse_task, "SparseError")
    /\ UNCHANGED <<rrf_vars, handler_vars, retry_vars,
                   wait_for_impl, top_k, pc, dense_task, sparse_task,
                   dense_hits, sparse_hits, timer, elapsed, waiter_done,
                   must_cancel, dense_results, sparse_results, final_results,
                   outcome, at_deadline>>

\* _release_waiter, run as the gathered future's done-callback (waiter
\* implementation): sets the waiter unless it is set, which wakes the request.
ReleaseWaiter ==
    /\ Runs("release_waiter")
    /\ waiter_done' = TRUE
    /\ Finish(IF waiter_done THEN <<>> ELSE <<"main">>)
    /\ UNCHANGED <<rrf_vars, handler_vars, retry_vars,
                   wait_for_impl, top_k, pc, dense_task, sparse_task,
                   dense_hits, sparse_hits, outer, nfinished, timer, elapsed,
                   must_cancel, dense_results, sparse_results, final_results,
                   outcome, at_deadline>>

\* The timeout handle runs.  Waiter implementation: _release_waiter.  Timeout
\* implementation: Timeout._on_timeout cancels the request task; the task
\* waits on the gathered future, whose cancel() cancels no child (both are
\* done) and returns False, so the task is marked _must_cancel.
TimerFires ==
    /\ Runs("timer")
    /\ timer = "queued"
    /\ timer' = "fired"
    /\ IF wait_for_impl = "waiter"
       THEN /\ waiter_done' = TRUE
            /\ Finish(IF waiter_done THEN <<>> ELSE <<"main">>)
            /\ UNCHANGED must_cancel
       ELSE /\ must_cancel' = TRUE
            /\ Finish(<<>>)
            /\ UNCHANGED waiter_done
    /\ UNCHANGED <<rrf_vars, handler_vars, retry_vars,
                   wait_for_impl, top_k, pc, dense_task, sparse_task,
                   dense_hits, sparse_hits, outer, nfinished, elapsed,
                   dense_results, sparse_results, final_results, outcome,
                   at_deadline>>

\* timeout_handle.cancel() / Timeout.__aexit__: a handle cancelled after it
\* was queued is dropped by the loop when its turn comes.
CancelTimer == IF timer \in {"armed", "queued"} THEN "cancelled" ELSE timer

\* The request's coroutine resumes inside wait_for.
\* Timeout implementation: a task marked _must_cancel gets CancelledError
\* thrown in, which Timeout.__aexit__ turns into TimeoutError: hybrid_search
\* enters its except branch.  Otherwise, and always in the waiter
\* implementation (the gathered future is done), wait_for returns the
\* gathered results or raises the gathered exception, which hybrid_search
\* does not catch.
MainResumes ==
    /\ Runs("main")
    /\ timer' = CancelTimer
    /\ IF wait_for_impl = "timeout" /\ must_cancel
       THEN /\ pc' = "except"
            /\ UNCHANGED <<dense_results, sparse_results, outcome>>
       ELSE IF outer = "ok"
       THEN /\ pc' = "fuse"
            /\ dense_results' = dense_hits
            /\ sparse_results' = sparse_hits
            /\ UNCHANGED outcome
       ELSE /\ pc' = "done"
            /\ outcome' = outer
            /\ UNCHANGED <<dense_results, sparse_results>>
    /\ Finish(<<>>)
    /\ UNCHANGED <<rrf_vars, handler_vars, retry_vars,
                   wait_for_impl, top_k, dense_task, sparse_task,
                   dense_hits, sparse_hits, outer, nfinished, elapsed, waiter_done,
                   must_cancel, final_results, at_deadline>>

\* except asyncio.TimeoutError: dense_results = await dense_task.
\* dense_task is the coroutine object gather already ran to its end inside a
\* Task: awaiting it again raises RuntimeError("cannot reuse already awaited
\* coroutine"), which nothing in hybrid_search catches.
AwaitDenseAgain ==
    /\ pc = "except"
    /\ dense_task \in {"ok", "err"}
    /\ pc' = "done"
    /\ outcome' = "RuntimeError"
    /\ awaited_again' = awaited_again \cup {"dense"}
    /\ UNCHANGED starts
    /\ UNCHANGED <<rrf_vars, handler_vars, wait_for_impl, top_k, dense_task, sparse_task,
                   dense_hits, sparse_hits, loop_vars, elapsed, dense_results,
                   sparse_results, final_results, at_deadline>>

\* the fusion handed the lists as [sparse_results, dense_results]
FuseSwapped ==
    /\ pc = "fuse"
    /\ final_results' =
           Take(reciprocal_rank_fusion(<<sparse_results, dense_results>>, rrf_k), top_k)
    /\ outcome' = "returned"
    /\ pc' = "done"
    /\ UNCHANGED <<rrf_vars, handler_vars, retry_vars,
                   wait_for_impl, top_k, dense_task, sparse_task,
                   dense_hits, sparse_hits, loop_vars, elapsed, dense_results,
                   sparse_results, at_deadline>>

\* merged_results = reciprocal_rank_fusion([dense_results, sparse_results],
\* k=settings.rrf_k); return merged_results[:top_k]
FuseAndReturn ==
    /\ pc = "fuse"
    /\ final_results' =
           Take(reciprocal_rank_fusion(<<dense_results, sparse_results>>, rrf_k), top_k)
    /\ outcome' = "returned"
    /\ pc' = "done"
    /\ UNCHANGED <<rrf_vars, handler_vars, retry_vars,
                   wait_for_impl, top_k, dense_task, sparse_task,
                   dense_hits, sparse_hits, loop_vars, elapsed, dense_results,
                   sparse_results, at_deadline>>

\* The search endpoint around hybrid_search: 200 with the results, or, for
\* any exception, 500 with the exception in the detail.
search_response ==
    IF outcome = "returned"
    THEN [status_code |-> 200, results |-> final_results]
    ELSE [status_code |-> 500, detail |-> outcome]

\* The steps the service takes by itself; DenseReturns and SparseReturns are
\* the Vector Store's, DeadlineElapses the clock's.
ServiceStep ==
    \/ StartRequest
    \/ LoopIteration
    \/ RunDenseStep
    \/ RunSparseStep
    \/ DenseDone
    \/ SparseDone
    \/ ReleaseWaiter
    \/ TimerFires
    \/ MainResumes
    \/ AwaitDenseAgain
    \/ FuseAndReturn

Init ==
    /\ wait_for_impl \in WaitForImpls
    /\ top_k \in 1..MaxTopK
    /\ NoRequest
    /\ NoFusion
    /\ NoStore
    /\ NoVector
    /\ NoSummary

Next ==
    \/ ServiceStep
    \/ DenseReturns
    \/ SparseReturns
    \/ DeadlineElapses

Spec == Init /\ [][Next]_vars

---------------------------------------------------------------------------
(* Inputs of SpecRRF *)

\* The k's tried: the configured constant and the smallest positive one.
Ks == {1, rrf_k}

DistinctIds(s) == {s[i] : i \in DOMAIN s} \ {NoId}

\* reciprocal_rank_fusion reads a document_id only to test it for truth and
\* to use it as a dictionary key, so an input is determined up to a renaming
\* of its ids.  Inputs name their ids in order of first appearance: the next
\* hit carries no id, an id already used, or the next fresh id of DocIds.
NextIds(s) ==
    {NoId} \cup {DocIds[j] : j \in 1..Min(Cardinality(DistinctIds(s)) + 1, Len(DocIds))}

RECURSIVE IdSeqs(_)
IdSeqs(n) ==
    IF n = 0 THEN {<<>>}
    ELSE {Append(s, x) : <<s, x>> \in
            UNION {{<<t, y>> : y \in NextIds(t)} : t \in IdSeqs(n - 1)}}

\* The hit at position pos of list i.  content and metadata name where the
\* hit stands, so an output row shows which hit its data was copied from.
\* (The hit's own "score" is never read by reciprocal_rank_fusion.)
Hit(doc_id, i, pos) ==
    [document_id |-> doc_id, content |-> <<"content", i, pos>>,
     metadata |-> <<"metadata", i, pos>>]

HitList(ids, i) == [pos \in 1..Len(ids) |-> Hit(ids[pos], i, pos)]

\* where a sequence of n hits may be cut into two lists of at most MaxLen
Cuts(n) == {p \in 0..n : p <= MaxLen /\ n - p <= MaxLen}

\* The input is one list, or two lists (as hybrid_search passes them), each
\* of at most MaxLen hits.
InitRRF ==
    /\ \E n \in 0..(2 * MaxLen) : \E flat \in IdSeqs(n) :
        \/ n <= MaxLen /\ results_list = <<HitList(flat, 1)>>
        \/ \E p \in Cuts(n) :
            results_list = <<HitList(SubSeq(flat, 1, p), 1),
                             HitList(SubSeq(flat, p + 1, n), 2)>>
    /\ k \in Ks
    /\ merged_results = <<>>
    /\ rrf_pc = "call"
    /\ wait_for_impl = "waiter"
    /\ top_k = 1
    /\ NoRequest
    /\ NoStore
    /\ NoVector
    /\ NoSummary

\* merged = reciprocal_rank_fusion(results_list, k)
Fuse ==
    /\ rrf_pc = "call"
    /\ merged_results' = reciprocal_rank_fusion(results_list, k)
    /\ rrf_pc' = "return"
    /\ UNCHANGED <<results_list, k, search_vars, handler_vars>>

NextRRF == Fuse

SpecRRF == InitRRF /\ [][NextRRF]_vars

---------------------------------------------------------------------------
(* The Vector Store: insert_document, search_dense / search_sparse,        *)
(* delete_by_tenant and the endpoints around them                          *)

\* A point of the collection is its id and its payload.  (The vectors decide
\* the ranking of a search, which is left open here: see client_search.)
Tenants == {"a", "b"}

StoreDocIds == {"doc1", "doc2"}

Contents == {"x", "y"}

\* PointStruct(id=..., vector=..., payload={"tenant_id": tenant_id,
\* "document_id": document_id, "content": content, "metadata": metadata})
PointStruct(id, tenant_id, document_id, content) ==
    [id |-> id, tenant_id |-> tenant_id, document_id |-> document_id,
     content |-> content, metadata |-> <<>>]

\* id=str(uuid.uuid4()): an id no point of the collection has
FreshIds(pts) == (1..MaxPoints) \ {p.id : p \in pts}

\* self.client.upsert(points=[point]): the point replaces the point of the
\* same id, if there is one, and is added otherwise
upsert(pts, point) == {p \in pts : p.id # point.id} \cup {point}

\* insert_document: a point with a fresh id is built and upserted
insert_document(pts, id, tenant_id, document_id, content) ==
    upsert(pts, PointStruct(id, tenant_id, document_id, content))

\* a filter that lets every point through
MatchesAny(point, tenant_id) == TRUE

\* Filter(must=[FieldCondition(key="tenant_id", match=MatchValue(value=tenant_id))])
Matches(point, tenant_id) == point.tenant_id = tenant_id

\* the injective sequences of n elements of S
InjectiveSeqs(S, n) == {f \in [1..n -> S] : \A i, j \in 1..n : f[i] = f[j] => i = j}

\* the points that pass the filter of a search or a scroll
Matching(pts, tenant_id) == {p \in pts : Matches(p, tenant_id)}

\* self.client.search(query_vector=("dense", ...), query_filter, limit): every
\* point has a dense vector and a cosine score, so the answer is the limit
\* nearest of the points that pass the filter, all of them if they are fewer.
\* Which are nearest is the business of the vectors: every ranking is possible.
client_search_dense(pts, tenant_id, limit) ==
    InjectiveSeqs(Matching(pts, tenant_id),
                  Min(limit, Cardinality(Matching(pts, tenant_id))))

\* self.client.search(query_vector=("sparse", ...), query_filter, limit): only
\* the points that share an index with the query score, so the answer is at
\* most limit of the points that pass the filter, in any ranking.
client_search_sparse(pts, tenant_id, limit) ==
    UNION {InjectiveSeqs(Matching(pts, tenant_id), n) :
              n \in 0..Min(limit, Cardinality(Matching(pts, tenant_id)))}

\* the row search_dense / search_sparse builds from a hit's payload
HitRow(point) ==
    [document_id |-> point.document_id, content |-> point.content,
     metadata |-> point.metadata]

\* return [{...} for hit in results]
HitRows(hits) == [i \in 1..Len(hits) |-> HitRow(hits[i])]

\* search_dense(tenant_id, query_vector, top_k): the lists it may return
search_dense(pts, tenant_id, limit) ==
    {HitRows(hits) : hits \in client_search_dense(pts, tenant_id, limit)}

\* search_sparse(tenant_id, query_text, top_k): the lists it may return
search_sparse(pts, tenant_id, limit) ==
    {HitRows(hits) : hits \in client_search_sparse(pts, tenant_id, limit)}

\* offset = None
None == 0

\* self.client.scroll(scroll_filter, limit, offset): the points that pass the
\* filter, in the order of their ids, from the id offset on ...
ScrollFrom(pts, tenant_id, offset) ==
    {p \in Matching(pts, tenant_id) : offset = None \/ p.id >= offset}

\* ... of which the first limit make the page ...
ScrollPage(candidates, limit) ==
    {p \in candidates : Cardinality({q \in candidates : q.id < p.id}) < limit}

\* a scroll that never reports a next page
ScrollNoNextOffset(candidates, page) == None

\* ... and the id of the next one, or None at the end, is the next offset.
ScrollNextOffset(candidates, page) ==
    LET rest == candidates \ page
    IN  IF rest = {} THEN None
        ELSE (CHOOSE p \in rest : \A q \in rest : p.id <= q.id).id


\* a delete that removes nothing
DeleteNothing(pts, point_ids) == pts

\* self.client.delete(points_selector=point_ids)
client_delete(pts, point_ids) == {p \in pts : p.id \notin point_ids}

\* the `while True` loop of delete_by_tenant, from one scroll to the return
RECURSIVE DeleteLoop(_, _, _, _)
DeleteLoop(pts, tenant_id, offset, deleted_count) ==
    LET candidates == ScrollFrom(pts, tenant_id, offset)
        results    == ScrollPage(candidates, scroll_limit)
        next       == ScrollNextOffset(candidates, results)
        point_ids  == {p.id : p \in results}
    IN  IF results = {}
        THEN [points |-> pts, deleted_count |-> deleted_count]
        ELSE IF next = None
        THEN [points        |-> client_delete(pts, point_ids),
              deleted_count |-> deleted_count + Cardinality(point_ids)]
        ELSE DeleteLoop(client_delete(pts, point_ids), tenant_id, next,
                        deleted_count + Cardinality(point_ids))

delete_by_tenant(pts, tenant_id) == DeleteLoop(pts, tenant_id, None, 0)

\* history kept with a delete: the request served just before it
Previous ==
    IF last_op.name = "none" THEN [name |-> "none"]
    ELSE IF last_op.name = "delete"
    THEN [name |-> "delete", tenant_id |-> last_op.tenant_id,
          deleted_count |-> last_op.deleted_count]
    ELSE [name |-> last_op.name, tenant_id |-> last_op.tenant_id]

\* POST /documents: ingest_document
IngestDocument(tenant_id, document_id, content) ==
    /\ Cardinality(points) < MaxPoints
    /\ \E id \in FreshIds(points) :
        points' = insert_document(points, id, tenant_id, document_id, content)
    /\ last_op' = [name |-> "ingest", tenant_id |-> tenant_id, status_code |-> 200,
                   document_id |-> document_id, content |-> content]
    /\ UNCHANGED <<rrf_vars, search_vars, sparse_vars, summary_vars>>

\* DELETE /documents/{tenant_id}: delete_tenant_documents
DeleteTenantDocuments(tenant_id) ==
    /\ LET done == delete_by_tenant(points, tenant_id)
       IN  /\ points' = done.points
           /\ last_op' = [name |-> "delete", tenant_id |-> tenant_id,
                          status_code |-> 200, deleted_count |-> done.deleted_count,
                          before |-> points, previous |-> Previous]
    /\ UNCHANGED <<rrf_vars, search_vars, sparse_vars, summary_vars>>

\* POST /search: search around hybrid_search.  When hybrid_search returns, it
\* returns the first top_k of the fusion of the two lists the Vector Store
\* answered with limit top_k * 2; when it raises (Spec: RuntimeError after
\* the deadline), the response is 500 and carries no hit.
Search(tenant_id, tk) ==
    /\ \/ \E dense \in search_dense(points, tenant_id, tk * 2) :
          \E sparse \in search_sparse(points, tenant_id, tk * 2) :
            last_op' = [name |-> "search", tenant_id |-> tenant_id, status_code |-> 200,
                        results |-> Take(reciprocal_rank_fusion(<<dense, sparse>>, rrf_k), tk)]
       \/ last_op' = [name |-> "search", tenant_id |-> tenant_id, status_code |-> 500,
                      results |-> <<>>]
    /\ UNCHANGED <<rrf_vars, search_vars, sparse_vars, summary_vars, points>>

InitStore ==
    /\ wait_for_impl = "waiter"
    /\ top_k = 1
    /\ NoRequest
    /\ NoFusion
    /\ NoStore
    /\ NoVector
    /\ NoSummary

NextStore ==
    \/ \E t \in Tenants, d \in StoreDocIds, c \in Contents : IngestDocument(t, d, c)
    \/ \E t \in Tenants : DeleteTenantDocuments(t)
    \/ \E t \in Tenants, tk \in 1..MaxTopK : Search(t, tk)

SpecStore == InitStore /\ [][NextStore]_vars

\* Collections of several scroll pages: n_a points of tenant "a" and n_b of
\* tenant "b", the points of "b" standing in the order of ids after the
\* first `at` points of "a".
BulkPoints(n_a, n_b, at) ==
    {PointStruct(i, "a", "doc1", "x") : i \in 1..at}
    \cup {PointStruct(at + i, "b", "doc1", "y") : i \in 1..n_b}
    \cup {PointStruct(at + n_b + i, "a", "doc1", "x") : i \in 1..(n_a - at)}

\* numbers of points around the page boundaries
BulkSizes ==
    {n \in 0..(MaxPages * scroll_limit + 1) :
        \E pg \in 0..MaxPages, d \in {-1, 0, 1} : n = pg * scroll_limit + d}

InitDelete ==
    /\ \E n_a \in BulkSizes, n_b \in 0..2 :
       \E at \in {0, Min(n_a, scroll_limit - 1), Min(n_a, scroll_limit), n_a} :
            points = BulkPoints(n_a, n_b, at)
    /\ last_op = NoOp
    /\ wait_for_impl = "waiter"
    /\ top_k = 1
    /\ NoRequest
    /\ NoFusion
    /\ NoVector
    /\ NoSummary

NextDelete == \E t \in Tenants : DeleteTenantDocuments(t)

SpecDelete == InitDelete /\ [][NextDelete]_vars

---------------------------------------------------------------------------
(* _create_sparse_vector *)

\* A text is kept as the sequence of the words text.split() cuts it into.
\* The words of the model; "Search" is there for lower().
Words == {"metadata", "leave", "search", "Search"}

\* word.lower()
Lower(word) == IF word = "Search" THEN "search" ELSE word

\* words = text.lower().split()
LowerWords(txt) == [i \in 1..Len(txt) |-> Lower(txt[i])]

\* hashlib.md5(word.encode('utf-8')).hexdigest()[:8] for the words of the
\* model, as the pair of its first and its last four hexadecimal digits:
\* md5("metadata") = 9f81f3c0..., md5("leave") = 6c374e70...,
\* md5("search") = 06a943c5...
md5_prefix(word) ==
    CASE word = "metadata" -> <<40833, 62400>>
      [] word = "leave"    -> <<27703, 20080>>
      [] word = "search"   -> <<1705, 17349>>

\* for word in words: word_freq[word] = word_freq.get(word, 0) + 1
\* (keys is the insertion order of the dict)
RECURSIVE CountWords(_, _, _)
CountWords(word_freq, words, i) ==
    IF i > Len(words) THEN word_freq
    ELSE LET word == words[i]
         IN  CountWords(
                 IF word \in DOMAIN word_freq.count
                 THEN [word_freq EXCEPT !.count[word] = @ + 1]
                 ELSE [keys  |-> Append(word_freq.keys, word),
                       count |-> word_freq.count @@ (word :> 1)],
                 words, i + 1)

\* idx = int(hash_obj.hexdigest()[:8], 16) % 10000
\* (the 32-bit value is h[1] * 65536 + h[2])
bucket(word) ==
    LET h == md5_prefix(word)
    IN  ((h[1] % index_space) * (65536 % index_space) + h[2]) % index_space

\* for word, freq in word_freq.items(): indices.append(idx);
\* values.append(float(freq))
_create_sparse_vector(txt) ==
    LET word_freq == CountWords([keys |-> <<>>, count |-> <<>>], LowerWords(txt), 1)
    IN  [indices |-> [i \in 1..Len(word_freq.keys) |-> bucket(word_freq.keys[i])],
         values  |-> [i \in 1..Len(word_freq.keys) |-> word_freq.count[word_freq.keys[i]]]]

Texts == UNION {[1..n -> Words] : n \in 0..MaxWords}

InitSparse ==
    /\ text \in Texts
    /\ sparse_vector = [indices |-> <<>>, values |-> <<>>]
    /\ sparse_pc = "call"
    /\ wait_for_impl = "waiter"
    /\ top_k = 1
    /\ NoRequest
    /\ NoFusion
    /\ NoStore
    /\ NoSummary

\* sparse_vector = self._create_sparse_vector(content)
CreateSparseVector ==
    /\ sparse_pc = "call"
    /\ sparse_vector' = _create_sparse_vector(text)
    /\ sparse_pc' = "return"
    /\ UNCHANGED <<rrf_vars, search_vars, store_vars, summary_vars, text>>

NextSparse == CreateSparseVector

SpecSparse == InitSparse /\ [][NextSparse]_vars

---------------------------------------------------------------------------
(* search_with_summary: hybrid_search, then generate_summary under         *)
(* with_timeout                                                            *)

\* A summary or an error detail is the tuple of the pieces its f-string joins.
NoResultsSummary == <<"No results found for your query.">>

TimeoutDefault == <<"Summary generation timed out. Please try again.">>

CircuitBreakerSummary ==
    <<"Summary generation timed out. Search results are still available below.">>

\* generate_summary without results
NothingToSummarize == <<"No search results found to summarize.">>

FailedSummary(e) ==
    <<"Summary generation failed: ", e, ". Search results are still available below.">>

FailedDetail(e) == <<"Search with summary failed: ", e>>

\* what hybrid_search raises in Spec
SearchErrors == {"RuntimeError", "DenseError", "SparseError"}

\* what hybrid_search returns in Spec: the first top_k of the fusion of two
\* answers of the Vector Store
SearchReturns ==
    {Take(reciprocal_rank_fusion(<<dense, sparse>>, rrf_k), MaxTopK) :
        dense \in StoreAnswers(MaxTopK * 2), sparse \in StoreAnswers(MaxTopK * 2)}

\* what LLMService() raises: ValueError for an unsupported provider
LLMServiceErrors == {"ValueError"}

\* response.choices[0].message.content of an answer
ProviderTexts == {" summary ", "summary"}

\* the answers of chat.completions.create: a completion with or without
\* content, or an exception
ProviderReplies ==
    {[kind |-> "text", content |-> c] : c \in ProviderTexts}
    \cup {[kind |-> "no_content"], [kind |-> "error", error |-> "APIError"]}

\* .strip()
strip(content) == IF content = " summary " THEN "summary" ELSE content

\* if not results: (the short-circuit of search_with_summary is never taken)
ShortCircuitNever(results) == FALSE

\* if not results:
ShortCircuit(results) == results = <<>>

\* generate_summary from its await on: a CancelledError thrown in is no
\* Exception and leaves through `except Exception`; an exception of the
\* provider is logged and raised again; a completion without content fails
\* in .strip(); otherwise the stripped content is returned.
generate_summary_resumes(reply, cancel) ==
    IF cancel THEN [kind |-> "cancelled"]
    ELSE IF reply.kind = "error" THEN [kind |-> "raise", error |-> reply.error]
    ELSE IF reply.kind = "no_content" THEN [kind |-> "raise", error |-> "AttributeError"]
    ELSE [kind |-> "return", value |-> <<strip(reply.content)>>]

\* the state of a coroutine that ended with result
TaskState(result) ==
    CASE result.kind = "return"    -> "ok"
      [] result.kind = "raise"     -> "err"
      [] result.kind = "cancelled" -> "cancelled"

\* the decorator circuit_breaker: a timeout raises CircuitBreakerException
circuit_breaker(ended, default) ==
    IF ended.kind = "timeout"
    THEN [kind |-> "raise", error |-> "CircuitBreakerException"]
    ELSE ended

\* with_timeout around asyncio.wait_for: TimeoutError returns default, a
\* result is returned, any other exception is logged and raised again
with_timeout(ended, default) ==
    IF ended.kind = "timeout"
    THEN [kind |-> "return", value |-> default]
    ELSE ended

\* the try / except around with_timeout in search_with_summary
summary_of(ended) ==
    IF ended.kind = "return" THEN ended.value
    ELSE IF ended.error = "CircuitBreakerException" THEN CircuitBreakerSummary
    ELSE FailedSummary(ended.error)

\* only the first result is put into the response
FirstResultOnly(results) ==
    [i \in 1..Min(1, Len(results)) |->
        [document_id |-> results[i].document_id, content |-> results[i].content,
         score |-> results[i].score, metadata |-> results[i].metadata]]

\* [SearchResult(document_id=r["document_id"], content=r["content"],
\* score=r["score"], metadata=r.get("metadata")).model_dump() for r in results]
ResponseResults(results) ==
    [i \in 1..Len(results) |->
        [document_id |-> results[i].document_id, content |-> results[i].content,
         score |-> results[i].score, metadata |-> Get(results[i], "metadata", <<>>)]]

\* the state of the request as one record, and its assignment
Now ==
    [sum_pc |-> sum_pc, search_outcome |-> search_outcome, sum_results |-> sum_results,
     llm_service |-> llm_service, llm_task |-> llm_task, llm_result |-> llm_result,
     provider_reply |-> provider_reply, provider_calls |-> provider_calls,
     llm_timer |-> llm_timer, llm_cancel |-> llm_cancel, main_woken |-> main_woken,
     response |-> response]

Becomes(n) ==
    /\ sum_pc' = n.sum_pc
    /\ search_outcome' = n.search_outcome
    /\ sum_results' = n.sum_results
    /\ llm_service' = n.llm_service
    /\ llm_task' = n.llm_task
    /\ llm_result' = n.llm_result
    /\ provider_reply' = n.provider_reply
    /\ provider_calls' = n.provider_calls
    /\ llm_timer' = n.llm_timer
    /\ llm_cancel' = n.llm_cancel
    /\ main_woken' = n.main_woken
    /\ response' = n.response
    /\ UNCHANGED <<rrf_vars, search_vars, store_vars, sparse_vars>>

\* the outer `except Exception`: HTTPException 500
Failed(n, e) ==
    [n EXCEPT !.sum_pc = "done",
              !.response = [status_code |-> 500, detail |-> FailedDetail(e)]]

\* wait_for has ended: with_timeout, the try / except around
\* it, and the JSONResponse
Responded(n, ended) ==
    [n EXCEPT !.sum_pc = "done",
              !.main_woken = FALSE,
              !.llm_timer = IF @ = "armed" THEN "cancelled" ELSE @,
              !.response = [status_code |-> 200,
                            results |-> ResponseResults(n.sum_results),
                            summary |-> summary_of(with_timeout(ended, TimeoutDefault))]]

\* From `summary = await with_timeout(llm_service.generate_summary(...))` to
\* the first suspension.  generate_summary without results returns at once,
\* with results it awaits chat.completions.create.  wait_for runs the
\* coroutine in a Task of its own (waiter implementation) or inside the
\* handler's task (timeout implementation).
Summarize(n) ==
    IF n.sum_results = <<>>
    THEN LET result == [kind |-> "return", value |-> NothingToSummarize]
             after  == [n EXCEPT !.llm_task = "ok", !.llm_result = result]
         IN  IF wait_for_impl = "timeout"
             THEN Responded(after, result)
             ELSE [after EXCEPT !.sum_pc = "wait_for", !.llm_timer = "armed",
                                !.main_woken = TRUE]
    ELSE [n EXCEPT !.sum_pc = "wait_for", !.llm_timer = "armed",
                   !.llm_task = "awaiting", !.provider_calls = @ + 1]

\* search_with_summary up to its response or to the suspension in wait_for
StartSummary ==
    /\ sum_pc = "start"
    /\ \/ \E e \in SearchErrors :
            Becomes(Failed([Now EXCEPT !.search_outcome = e], e))
       \/ \E results \in SearchReturns :
            LET n == [Now EXCEPT !.search_outcome = "returned", !.sum_results = results]
            IN  IF ShortCircuit(results)
                THEN Becomes([n EXCEPT !.sum_pc = "done",
                                       !.response = [status_code |-> 200,
                                                     results |-> <<>>,
                                                     summary |-> NoResultsSummary]])
                ELSE \/ \E e \in LLMServiceErrors :
                          Becomes(Failed([n EXCEPT !.llm_service = "failed"], e))
                     \/ Becomes(Summarize([n EXCEPT !.llm_service = "created"]))

\* The Text Generation Provider answers: the future generate_summary awaits
\* is set and the wakeup of its task is queued.  After the timeout handle has
\* run, the awaited call is cancelled before the loop takes in an answer.
ProviderAnswers ==
    /\ sum_pc = "wait_for"
    /\ llm_task = "awaiting"
    /\ llm_timer = "armed"
    /\ \E reply \in ProviderReplies :
        Becomes([Now EXCEPT !.provider_reply = reply, !.llm_task = "woken"])

\* generate_summary resumes and ends.  Waiter implementation: its Task is
\* done, which wakes the handler.  Timeout implementation: the handler's own
\* task goes on: Timeout.__aexit__ turns the CancelledError into TimeoutError.
GenerateSummaryResumes ==
    /\ sum_pc \in {"wait_for", "cancel_wait"}
    /\ llm_task = "woken"
    /\ LET result == generate_summary_resumes(provider_reply, llm_cancel)
           after  == [Now EXCEPT !.llm_task = TaskState(result),
                                 !.llm_result = result,
                                 !.llm_cancel = FALSE]
       IN  IF wait_for_impl = "timeout"
           THEN Becomes(Responded(after, IF result.kind = "cancelled"
                                         THEN [kind |-> "timeout"] ELSE result))
           ELSE Becomes([after EXCEPT !.main_woken = TRUE])

\* The timeout handle of wait_for runs.  Waiter implementation:
\* _release_waiter wakes the handler.  Timeout implementation: the handler's
\* task is cancelled, which cancels the future generate_summary awaits or,
\* if that is set already, marks the task _must_cancel.
LlmTimerFires ==
    /\ sum_pc = "wait_for"
    /\ llm_timer = "armed"
    /\ IF wait_for_impl = "waiter"
       THEN Becomes([Now EXCEPT !.llm_timer = "fired", !.main_woken = TRUE])
       ELSE Becomes([Now EXCEPT !.llm_timer = "fired", !.llm_cancel = TRUE,
                                !.llm_task = "woken"])

\* Waiter implementation: the handler resumes in wait_for.  If the Task of
\* generate_summary is done, its result is returned or its exception raised;
\* if not (the timeout handle has run), the Task is cancelled and awaited.
\* (A wakeup of generate_summary queued before the handler's runs first.)
MainWakes ==
    /\ sum_pc = "wait_for"
    /\ main_woken
    /\ llm_task # "woken"
    /\ IF llm_task \in {"ok", "err"}
       THEN Becomes(Responded(Now, llm_result))
       ELSE Becomes([Now EXCEPT !.sum_pc = "cancel_wait", !.main_woken = FALSE,
                                !.llm_cancel = TRUE, !.llm_task = "woken"])

\* Waiter implementation: the cancelled Task has after; fut.result() raises
\* CancelledError and wait_for raises TimeoutError.
MainAfterCancel ==
    /\ sum_pc = "cancel_wait"
    /\ main_woken
    /\ llm_task = "cancelled"
    /\ Becomes(Responded(Now, [kind |-> "timeout"]))

InitSummary ==
    /\ wait_for_impl \in WaitForImpls
    /\ top_k = MaxTopK
    /\ NoRequest
    /\ NoFusion
    /\ NoStore
    /\ NoVector
    /\ NoSummary

NextSummary ==
    \/ StartSummary
    \/ ProviderAnswers
    \/ GenerateSummaryResumes
    \/ LlmTimerFires
    \/ MainWakes
    \/ MainAfterCancel

SpecSummary == InitSummary /\ [][NextSummary]_vars

---------------------------------------------------------------------------
(* C1 - C4: hybrid_search under the deadline *)

RequestDone == pc = "done"

\* what the request returns when it degrades to the dense results alone
DenseOnly == Take(reciprocal_rank_fusion(<<dense_hits, <<>>>>, rrf_k), top_k)

\* the deadline passed while this coroutine had not completed
DenseLate == at_deadline[1] \in {"pending", "running"}
SparseLate == at_deadline[2] \in {"pending", "running"}

\* C1: if the sparse search has not completed when the deadline expires and
\* the dense search has, the request does not fail: it returns the result
\* fused from the dense results alone.
C1_DenseOnlyWhenSparseLate ==
    (RequestDone /\ at_deadline[1] = "ok" /\ SparseLate) =>
        (outcome = "returned" /\ final_results = DenseOnly)

\* C2: if the dense search has not completed when the deadline expires, the
\* request fails with a timeout-kind error: it neither returns a result nor
\* fails with another kind of error.
C2_TimeoutErrorWhenDenseLate ==
    (RequestDone /\ DenseLate) =>
        (search_response.status_code = 500 /\ search_response.detail = "TimeoutError")

\* C3: once the deadline has expired the request never waits on a sub-task
\* that has not completed: as long as it has neither returned nor failed,
\* the service can take its next step without an answer from the Vector
\* Store, however late (or never) the two calls complete.
C3_NeverWaitsPastDeadline ==
    (elapsed /\ ~RequestDone) => ENABLED ServiceStep

\* C4: if the sparse search raises an error while the dense search succeeds,
\* the request does not fail but returns the result fused from the dense
\* results only; if the dense search raises, the request fails.
C4_SparseErrorDegrades ==
    /\ (RequestDone /\ dense_task = "ok" /\ sparse_task = "err") =>
           (outcome = "returned" /\ final_results = DenseOnly)
    /\ (RequestDone /\ dense_task = "err") => outcome # "returned"

---------------------------------------------------------------------------
(* What the fusion claims speak about, stated over the input alone *)

RRFReturned == rrf_pc = "return"

\* every place <<i, pos>> of the input where document doc_id stands
Places(doc_id) ==
    {<<i, pos>> \in (1..Len(results_list)) \X (1..(2 * MaxLen)) :
        /\ pos <= Len(results_list[i])
        /\ results_list[i][pos].document_id = doc_id}

\* the ids that occur in the input, the missing one left out
InputIds ==
    {results_list[i][pos].document_id :
        <<i, pos>> \in {<<j, q>> \in (1..Len(results_list)) \X (1..(2 * MaxLen)) :
                            q <= Len(results_list[j])}} \ {NoId}

\* <<i, pos>> before <<j, q>> in list 1 followed by list 2, ...
Before(a, b) == a[1] < b[1] \/ (a[1] = b[1] /\ a[2] < b[2])

\* where doc_id first appears in the concatenation of the input lists
FirstPlace(doc_id) ==
    CHOOSE a \in Places(doc_id) : \A b \in Places(doc_id) : a = b \/ Before(a, b)

\* sum over a set of places of 1 / (k + rank), as a numerator over ScoreDen(k)
RECURSIVE SumOfReciprocals(_)
SumOfReciprocals(places) ==
    IF places = {} THEN 0
    ELSE LET a == CHOOSE x \in places : TRUE
         IN  (ScoreDen(k) \div (k + a[2])) + SumOfReciprocals(places \ {a})

MergedIds == [i \in 1..Len(merged_results) |-> merged_results[i].document_id]

StrictlyDescending ==
    \A i \in 1..(Len(merged_results) - 1) :
        merged_results[i].score > merged_results[i + 1].score

\* the example of test_rrf_basic
BasicLists ==
    <<HitList(<<"doc1", "doc2", "doc3">>, 1), HitList(<<"doc2", "doc1", "doc4">>, 2)>>

BasicCase == RRFReturned /\ results_list = BasicLists /\ k = 60

---------------------------------------------------------------------------
(* C5 *)

---------------------------------------------------------------------------
(* C6 *)

---------------------------------------------------------------------------
(* C7 *)

\* C7 as stated: every returned list is strictly descending by fused score.
C7_StrictlyDescending == RRFReturned => StrictlyDescending

\* C7 amended: every returned list is descending by fused score, but not
\* strictly: of two adjacent hits the earlier one's score is greater than or
\* equal to the later one's, and documents whose fused scores tie are both
\* returned, next to each other.
C7_Descending ==
    RRFReturned =>
        \A i \in 1..(Len(merged_results) - 1) :
            merged_results[i].score >= merged_results[i + 1].score

\* two disjoint lists of two hits (test_rrf_no_overlap): two ties, one drop
C7_Witness ==
    /\ RRFReturned
    /\ results_list = <<HitList(<<"doc1", "doc2">>, 1), HitList(<<"doc3", "doc4">>, 2)>>
    /\ Len(merged_results) = 4
    /\ merged_results[1].score = merged_results[2].score
    /\ merged_results[2].score > merged_results[3].score

---------------------------------------------------------------------------
(* C8 *)

\* C8: the output holds every distinct non-missing document_id of the input
\* exactly once and nothing else; it is empty only when the input has no
\* hit with a document_id.
C8_AllIdsExactlyOnce ==
    RRFReturned =>
        /\ {MergedIds[i] : i \in 1..Len(MergedIds)} = InputIds
        /\ \A i, j \in 1..Len(MergedIds) : MergedIds[i] = MergedIds[j] => i = j
        /\ Len(merged_results) = Cardinality(InputIds)
        /\ (merged_results = <<>>) <=> (InputIds = {})

\* an id repeated within a list and across lists, and a hit without id
C8_Witness ==
    /\ RRFReturned
    /\ Len(results_list) = 2
    /\ Cardinality(Places("doc1")) >= 3
    /\ Places(NoId) # {}
    /\ Cardinality(InputIds) >= 3
    /\ Len(merged_results) = Cardinality(InputIds)

---------------------------------------------------------------------------
(* C9 *)

\* C9: each output document's fused score is the sum, over every list and
\* every position where its document_id stands, of 1 / (k + rank) with the
\* 1-based rank; rank 1 in two lists with k = 60 gives 2/61; every score is
\* positive.
C9_ScoreIsSumOfReciprocalRanks ==
    RRFReturned =>
        /\ \A i \in 1..Len(merged_results) :
            /\ merged_results[i].score =
                   SumOfReciprocals(Places(merged_results[i].document_id))
            /\ merged_results[i].score > 0
        /\ (k = 60 /\ results_list = <<HitList(<<"doc1">>, 1), HitList(<<"doc1">>, 2)>>) =>
               (Len(merged_results) = 1 /\ merged_results[1].score * 61 = 2 * ScoreDen(60))

\* a document that stands twice in one list and once in the other
C9_Witness ==
    /\ RRFReturned
    /\ Len(results_list) = 2
    /\ \E i \in 1..Len(merged_results) :
        LET places == Places(merged_results[i].document_id)
        IN  /\ Cardinality(places) = 3
            /\ Cardinality({a \in places : a[1] = 1}) = 2

---------------------------------------------------------------------------
(* C10 *)

SingleListOfDistinctIds ==
    /\ Len(results_list) = 1
    /\ \A p \in 1..Len(results_list[1]) : results_list[1][p].document_id # NoId
    /\ \A p, q \in 1..Len(results_list[1]) :
        results_list[1][p].document_id = results_list[1][q].document_id => p = q

\* C10: fusing a single list of distinct document_ids returns the same
\* documents in the same order, with strictly decreasing scores.
C10_SingleListIdentity ==
    (RRFReturned /\ SingleListOfDistinctIds) =>
        /\ Len(merged_results) = Len(results_list[1])
        /\ \A p \in 1..Len(merged_results) :
            /\ merged_results[p].document_id = results_list[1][p].document_id
            /\ merged_results[p].content = results_list[1][p].content
            /\ merged_results[p].metadata = results_list[1][p].metadata
        /\ StrictlyDescending

C10_Witness ==
    /\ RRFReturned
    /\ SingleListOfDistinctIds
    /\ Len(results_list[1]) = MaxLen
    /\ Len(merged_results) = MaxLen

---------------------------------------------------------------------------
(* C11 *)

SearchReturned == last_op.name = "search" /\ last_op.status_code = 200

\* the hit is the document of a point stored under tenant_id
StoredUnder(hit, tenant_id) ==
    \E p \in points :
        /\ p.tenant_id = tenant_id
        /\ p.document_id = hit.document_id
        /\ p.content = hit.content
        /\ p.metadata = hit.metadata

\* C11: after any sequence of ingests, deletes and searches, every hit a
\* search under tenant b returns is a document stored under tenant b (a point
\* carries the tenant it was ingested under); a document ingested only under
\* another tenant never appears, also when both tenants use its document_id.
C11_TenantIsolationOnRead ==
    SearchReturned =>
        \A i \in 1..Len(last_op.results) : StoredUnder(last_op.results[i], last_op.tenant_id)

\* both tenants hold "doc1", with different contents, and a search under "b"
\* returns it
C11_Witness ==
    /\ SearchReturned
    /\ last_op.tenant_id = "b"
    /\ \E p, q \in points :
        /\ p.tenant_id = "a" /\ q.tenant_id = "b"
        /\ p.document_id = "doc1" /\ q.document_id = "doc1"
        /\ p.content # q.content
    /\ Len(last_op.results) = 1
    /\ last_op.results[1].document_id = "doc1"

---------------------------------------------------------------------------
(* C12 *)

DeleteServed == last_op.name = "delete"

\* the delete just served directly follows a delete of the same tenant
SecondDelete ==
    /\ DeleteServed
    /\ last_op.previous.name = "delete"
    /\ last_op.previous.tenant_id = last_op.tenant_id

\* C12: a tenant delete succeeds with a non-negative count, and a delete of
\* the same tenant that directly follows it succeeds with count 0, whatever
\* the number of points of the tenant, more than one scroll page included.
C12_DeleteIdempotent ==
    /\ DeleteServed => (last_op.status_code = 200 /\ last_op.deleted_count >= 0)
    /\ SecondDelete => last_op.deleted_count = 0

\* the first of the two deletes removed more than one scroll page
C12_Witness ==
    /\ SecondDelete
    /\ last_op.previous.deleted_count > scroll_limit
    /\ last_op.deleted_count = 0
    /\ last_op.status_code = 200

---------------------------------------------------------------------------
(* C13 *)

\* C13: the store holds at most one point per (tenant_id, document_id), and
\* after an ingest the stored document of that tenant and document_id is the
\* ingested one.
C13_UniqueDocumentIdPerTenant ==
    /\ \A p, q \in points :
        (p.tenant_id = q.tenant_id /\ p.document_id = q.document_id) => p = q
    /\ last_op.name = "ingest" =>
        \A p \in points :
            (p.tenant_id = last_op.tenant_id /\ p.document_id = last_op.document_id)
                => p.content = last_op.content

---------------------------------------------------------------------------
(* C20 *)

\* C20: a tenant delete removes every point of the tenant and leaves every
\* point of every other tenant as it was, over any number of scroll pages.
C20_DeleteTenantScoped ==
    DeleteServed =>
        points = {p \in last_op.before : p.tenant_id # last_op.tenant_id}

\* more than one page of the tenant's points, with points of the other tenant
\* standing among them in the order of the scroll
C20_Witness ==
    /\ DeleteServed
    /\ last_op.deleted_count > scroll_limit
    /\ \E p \in points, q, r \in last_op.before :
        /\ q.tenant_id = last_op.tenant_id /\ r.tenant_id = last_op.tenant_id
        /\ q.id < p.id /\ p.id < r.id

---------------------------------------------------------------------------
(* C14 *)

SparseReturned == sparse_pc = "return"

\* the positions of the returned vector that carry index idx
PositionsOf(idx) == {i \in 1..Len(sparse_vector.indices) : sparse_vector.indices[i] = idx}

\* how many words of the lower-cased text fall into bucket idx
WordsInBucket(idx) == Cardinality({i \in 1..Len(text) : bucket(Lower(text[i])) = idx})

\* C14: in the sparse vector of a text each bucket index appears at most
\* once, and its weight is the sum of the frequencies of all the tokens that
\* hash to it; the indices are exactly the buckets of the text's tokens; the
\* empty text yields the empty vector.
C14_BucketsSummed ==
    SparseReturned =>
        /\ \A i, j \in 1..Len(sparse_vector.indices) :
            sparse_vector.indices[i] = sparse_vector.indices[j] => i = j
        /\ \A i \in 1..Len(sparse_vector.indices) :
            sparse_vector.values[i] = WordsInBucket(sparse_vector.indices[i])
        /\ {sparse_vector.indices[i] : i \in 1..Len(sparse_vector.indices)}
               = {bucket(Lower(text[i])) : i \in 1..Len(text)}
        /\ text = <<>> => sparse_vector = [indices |-> <<>>, values |-> <<>>]

---------------------------------------------------------------------------
(* C15 - C18: search_with_summary *)

SummaryDone == sum_pc = "done"

\* hybrid_search returned, with or without results
SearchSucceeded == search_outcome = "returned"

\* The call of the Text Generation Provider did not complete within the
\* augmentation deadline: the loop ran the timeout handle of wait_for and had
\* taken in no answer of the provider.
ProviderTimedOut ==
    /\ provider_calls = 1
    /\ llm_timer = "fired"
    /\ provider_reply = NoReply

\* C15: when the provider call does not complete within the augmentation
\* deadline, the request succeeds and its summary is the fixed timeout
\* message passed to with_timeout as default: not a message describing an
\* error, and not a failed request.
C15_TimeoutMessage ==
    (SummaryDone /\ ProviderTimedOut) =>
        /\ response.status_code = 200
        /\ response.summary = TimeoutDefault

C15_Witness ==
    /\ SummaryDone
    /\ ProviderTimedOut
    /\ sum_results # <<>>
    /\ response.summary = TimeoutDefault

\* the summarizer raised: the LLM service could not be created, or
\* generate_summary ended with an exception
SummarizerError ==
    IF llm_service = "failed" THEN "ValueError"
    ELSE IF llm_result.kind = "raise" THEN llm_result.error
    ELSE "none"

\* C16: an error raised by the Text Generation Provider, or by creating the
\* LLM service, never fails the request: the response is a success whose
\* summary is the message that embeds the error.
C16_ErrorsNeverFailRequest ==
    (SummaryDone /\ SearchSucceeded /\ SummarizerError # "none") =>
        /\ response.status_code = 200
        /\ response.summary = FailedSummary(SummarizerError)

\* C17: when hybrid_search returns an empty list, the response is a success
\* with no results and the fixed no-results summary, and the Text Generation
\* Provider is not called at any time of the request.
C17_EmptyResultsShortCircuit ==
    (SearchSucceeded /\ sum_results = <<>>) =>
        /\ provider_calls = 0
        /\ SummaryDone
        /\ response = [status_code |-> 200, results |-> <<>>,
                       summary |-> NoResultsSummary]

C17_Witness ==
    /\ SummaryDone
    /\ SearchSucceeded
    /\ sum_results = <<>>
    /\ response.status_code = 200
    /\ llm_service = "none"

---------------------------------------------------------------------------
(* C19 *)

\* both searches had completed when the deadline passed, if it passed at all
BothInTime ==
    /\ dense_task = "ok" /\ sparse_task = "ok"
    /\ elapsed => at_deadline = <<"ok", "ok">>

\* the ranking fused from the two lists in the order [first, second]
RankingOf(first, second) ==
    Take(reciprocal_rank_fusion(<<first, second>>, rrf_k), top_k)

\* C19: when both searches complete before the deadline, the ranking a
\* request returns is the one fused from [dense list, sparse list]: it is
\* fixed by the two lists and does not depend on which of the two searches
\* completed first.  (gather hands the results over by argument position; in
\* this service search_dense always completes first, because it runs to its
\* end in the first step of its task.)
C19_RankingByPositionNotCompletion ==
    (RequestDone /\ BothInTime /\ outcome = "returned") =>
        /\ final_results = RankingOf(dense_hits, sparse_hits)
        /\ dense_results = dense_hits
        /\ sparse_results = sparse_hits

\* a returned request for which the order of the two lists matters
C19_Witness ==
    /\ RequestDone
    /\ BothInTime
    /\ outcome = "returned"
    /\ dense_hits # <<>> /\ sparse_hits # <<>>
    /\ RankingOf(dense_hits, sparse_hits) # RankingOf(sparse_hits, dense_hits)
    /\ final_results = RankingOf(dense_hits, sparse_hits)

----------------------------------------------------------------------------
(* C21: nothing is retried within one request *)

\* each of the two searches has been started at most once
StartedAtMostOnce == starts.dense <= 1 /\ starts.sparse <= 1

\* hybrid_search awaited, after wait_for had ended, this coroutine, which
\* had not completed when the deadline passed
DenseAwaitedAfterTimeout == "dense" \in awaited_again /\ DenseLate
SparseAwaitedAfterTimeout == "sparse" \in awaited_again /\ SparseLate

\* C21: no operation is retried within one request: the dense search and the
\* sparse search are each started at most once, and a sub-task that had not
\* completed when the deadline expired is never started or awaited again
\* after the deadline.
C21_NothingRetried ==
    /\ StartedAtMostOnce
    /\ ~DenseAwaitedAfterTimeout
    /\ ~SparseAwaitedAfterTimeout

----------------------------------------------------------------------------
(* C22: the first sighting gives the content *)

\* the hit of the input that stands at place <<i, pos>>
HitAt(a) == results_list[a[1]][a[2]]

\* C22: the content and the metadata of each output document are those of
\* the first hit with its document_id in the first input list where the id
\* appears; the later sightings of the id go into its score and leave its
\* content and metadata as they are.
C22_FirstSightingGivesContent ==
    RRFReturned =>
        \A i \in 1..Len(merged_results) :
            LET row == merged_results[i]
                first == HitAt(FirstPlace(row.document_id))
            IN  /\ row.content = first.content
                /\ row.metadata = first.metadata
                /\ row.score = SumOfReciprocals(Places(row.document_id))

\* a document sighted twice in the first list and again in the second, each
\* hit with its own content and metadata
C22_Witness ==
    /\ RRFReturned
    /\ Len(results_list) = 2
    /\ \E i \in 1..Len(merged_results) :
        LET row == merged_results[i]
            places == Places(row.document_id)
        IN  /\ Cardinality({a \in places : a[1] = 1}) >= 2
            /\ \E a \in places : a[1] = 2
            /\ \A a \in places \ {FirstPlace(row.document_id)} :
                   HitAt(a).content # row.content /\ HitAt(a).metadata # row.metadata
            /\ row.score > rrf_score(k, FirstPlace(row.document_id)[2])

----------------------------------------------------------------------------
(* C23: a hit without document_id is skipped *)

\* the places of the input whose hit carries a document_id
PlacesWithId == UNION {Places(doc_id) : doc_id \in InputIds}

RECURSIVE SumOfScores(_)
SumOfScores(rows) ==
    IF rows = <<>> THEN 0 ELSE rows[1].score + SumOfScores(Tail(rows))

\* C23: a hit whose document_id is missing is skipped: no output row stands
\* for it, it adds nothing to any score (the scores add up to the
\* reciprocals of the hits that carry an id), and every other hit keeps the
\* rank of its 1-based position in its list, the skipped hits counted.
C23_MissingIdSkipped ==
    (RRFReturned /\ Places(NoId) # {}) =>
        /\ \A i \in 1..Len(merged_results) :
            /\ ~Falsy(merged_results[i].document_id)
            /\ merged_results[i].score =
                   SumOfReciprocals(Places(merged_results[i].document_id))
        /\ SumOfScores(merged_results) = SumOfReciprocals(PlacesWithId)

\* a hit without id stands before a hit with an id in the same list
C23_Witness ==
    /\ RRFReturned
    /\ \E a \in Places(NoId) : \E b \in PlacesWithId :
        /\ a[1] = b[1] /\ a[2] < b[2]
        /\ \E i \in 1..Len(merged_results) :
            /\ merged_results[i].document_id = HitAt(b).document_id
            /\ Places(merged_results[i].document_id) = {b}
            /\ merged_results[i].score = rrf_score(k, b[2])

===========================================================================
